---- MODULE Spec2Model ----
(***************************************************************************)
(* Post-processing utilities of YOLOPv2-1D_Coordinates (src/utils/utils.py) *)
(* as state machines: the drivable-boundary profile extraction              *)
(* (get_drivable_area_in_1D and its helpers), box IoU, non-maximum          *)
(* suppression and the letterbox transform with its inverse.                *)
(***************************************************************************)
EXTENDS Integers, Sequences, FiniteSets, TLC

VARIABLES
    segmentation_matrix,      \* the edge mask: [h, w, px], px the set of its nonzero pixels
    current_width,            \* argument of get_drivable_area_in_1D
    current_height,           \* argument of get_drivable_area_in_1D
    polygon_coords,           \* local of get_drivable_area_in_1D
    filtered_polygon_coords,  \* local of get_drivable_area_in_1D
    updated_coords,           \* local of get_drivable_area_in_1D
    y_coords,                 \* the value get_drivable_area_in_1D returns
    ppc,                      \* position in get_drivable_area_in_1D
    prediction,               \* non_max_suppression: the batch, one sequence of raw rows per image
    conf_thres,               \* in hundredths
    iou_thres,                \* [num, den]
    classes,                  \* [given, ids]: None, or the allowed class ids
    agnostic,
    multi_label,
    labels,                   \* <<>> or one sequence of a-priori labels per image
    xi,                       \* the image the loop of line 443 is at (1-based)
    x_nms,                    \* per image, the detections matrix x at line 484
    output,                   \* per image, the detections stored at line 504
    elapsed,                  \* time.time() - t, in seconds
    warned,                   \* the warning of line 506 was printed
    npc,                      \* position in non_max_suppression
    arg_box1, arg_box2,       \* box_iou: the two corner-form boxes
    iou12, iou21, iou11,      \* box_iou(box1, box2), box_iou(box2, box1), box_iou(box1, box1)
    ipc,                      \* position of the box_iou calls
    img0_shape,               \* letterbox: shape of the source image, <<height, width>>
    new_shape,                \* letterbox: target shape, <<height, width>>
    auto, scaleFill, scaleup, stride,
    ratio,                    \* letterbox's ratio: <<width ratio, height ratio>>, each [num, den]
    pad,                      \* letterbox's (dw, dh) as the fractions [num, den]
    new_unpad,                \* <<width, height>> of the resized, unpadded image
    border,                   \* [top, bottom, left, right] given to copyMakeBorder
    coords0,                  \* a box <<x1, y1, x2, y2>> of the source image
    img1_coords,              \* the box in the padded image, then scale_coords' result (fractions)
    lpc,                      \* position in the letterbox / scale_coords run
    \* LoadImages
    files,                    \* self.files as [video, frames]: images first, then videos
    nf,                       \* self.nf
    count,                    \* self.count
    cap,                      \* self.cap: [open, file, pos], the capture and the frames read from it
    frame,                    \* self.frame
    yielded,                  \* the items __next__ has returned, as <<file, frame>> (0 for an image)
    last_call,                \* how the last call of __next__ ended
    lipc                      \* position in the life of the LoadImages object

profileVars == <<segmentation_matrix, current_width, current_height, polygon_coords,
                 filtered_polygon_coords, updated_coords, y_coords, ppc>>

nmsVars == <<prediction, conf_thres, iou_thres, classes, agnostic, multi_label, labels,
             xi, x_nms, output, elapsed, warned, npc>>

iouVars == <<arg_box1, arg_box2, iou12, iou21, iou11, ipc>>

letterVars == <<img0_shape, new_shape, auto, scaleFill, scaleup, stride, ratio, pad,
                new_unpad, border, coords0, img1_coords, lpc>>

loadVars == <<files, nf, count, cap, frame, yielded, last_call, lipc>>

vars == <<profileVars, nmsVars, iouVars, letterVars, loadVars>>

(***************************************************************************)
(* Generic helpers standing for Python built-ins.                          *)
(***************************************************************************)
Min2(a, b) == IF a <= b THEN a ELSE b
Max2(a, b) == IF a >= b THEN a ELSE b

\* What a Python call yields: its value, or the fact that it raised
\* (IndexError, ValueError, ZeroDivisionError).
Returned(v) == [ok |-> TRUE, val |-> v]
Raised == [ok |-> FALSE, val |-> <<>>]

RECURSIVE SumSeq(_)
SumSeq(s) == IF s = <<>> THEN 0 ELSE Head(s) + SumSeq(Tail(s))

\* int(round(p / q)) for q > 0: Python rounds a half to the even neighbour.
RoundHalfEven(p, q) ==
    LET fl == p \div q
        r2 == 2 * (p - fl * q)
    IN  IF r2 < q THEN fl
        ELSE IF r2 > q THEN fl + 1
        ELSE IF fl % 2 = 0 THEN fl ELSE fl + 1

\* sorted(coords, key=lambda coord: coord[0]): a stable sort on the x value.
RECURSIVE MergeByX(_, _)
MergeByX(a, b) ==
    IF a = <<>> THEN b
    ELSE IF b = <<>> THEN a
    ELSE IF Head(b)[1] < Head(a)[1] THEN <<Head(b)>> \o MergeByX(a, Tail(b))
    ELSE <<Head(a)>> \o MergeByX(Tail(a), b)

RECURSIVE MergeSortByX(_)
MergeSortByX(s) ==
    IF Len(s) <= 1 THEN s
    ELSE LET m == Len(s) \div 2
         IN  MergeByX(MergeSortByX(SubSeq(s, 1, m)), MergeSortByX(SubSeq(s, m + 1, Len(s))))

SortedByX(s) ==
    IF \A i \in 1..(Len(s) - 1) : s[i][1] <= s[i + 1][1] THEN s   \* a stable sort leaves it as it is
    ELSE MergeSortByX(s)

(***************************************************************************)
(* Boundary extraction.                                                    *)
(***************************************************************************)
\* Raster order of the two nested loops of convert_seg_to_arr: rows, then columns.
RasterBefore(p, q) == p.y < q.y \/ (p.y = q.y /\ p.x < q.x)

RECURSIVE RasterSeq(_)
RasterSeq(pixels) ==
    IF pixels = {} THEN <<>>
    ELSE LET first == CHOOSE p \in pixels : \A q \in pixels \ {p} : RasterBefore(p, q)
         IN  <<first>> \o RasterSeq(pixels \ {first})

\* A convert_seg_to_arr that emits (x, y) with the raster row, top-left origin.
convert_seg_to_arr_top_origin(polygon) ==
    LET hit == RasterSeq({p \in polygon.px : p.v = 255})
    IN  [k \in 1..Len(hit) |-> <<hit[k].x, hit[k].y>>]

\* convert_seg_to_arr: a pixel is emitted when polygon / 255 == 1, as (x, height - y - 1).
convert_seg_to_arr(polygon) ==
    LET hit == RasterSeq({p \in polygon.px : p.v = 255})
    IN  [k \in 1..Len(hit) |-> <<hit[k].x, polygon.h - hit[k].y - 1>>]

\* A remove_bottom_edge that keeps the points whose y is the minimum y of their x.
remove_bottom_edge_min(coords) ==
    LET min_y_values(x) ==
            CHOOSE m \in {coords[k][2] : k \in {j \in 1..Len(coords) : coords[j][1] = x}} :
                \A k \in 1..Len(coords) : coords[k][1] = x => coords[k][2] >= m
    IN  SelectSeq(coords, LAMBDA c : c[2] = min_y_values(c[1]))

\* remove_bottom_edge: keeps the points whose y is the maximum y of their x.
remove_bottom_edge(coords) ==
    LET max_y_values(x) ==
            CHOOSE m \in {coords[k][2] : k \in {j \in 1..Len(coords) : coords[j][1] = x}} :
                \A k \in 1..Len(coords) : coords[k][1] = x => coords[k][2] <= m
    IN  SelectSeq(coords, LAMBDA c : c[2] = max_y_values(c[1]))

\* regular_sample: n_sample elements, step = len // n_sample apart; coordinates[i]
\* raises IndexError when the index is outside the list.
regular_sample(coordinates, n_sample) ==
    LET step == Len(coordinates) \div n_sample
    IN  IF \E i \in 0..(n_sample - 1) : i * step >= Len(coordinates) THEN Raised
        ELSE Returned([k \in 1..n_sample |-> coordinates[(k - 1) * step + 1]])

\* The number of samples fill_missing_coords asks regular_sample for.
NSample == 100

\* Lines 759-767 of fill_missing_coords: one entry per x in range(0, max_x), the y
\* of the first point of sorted_coords with that x, or 0 where x has no point.
FirstWithX(sorted_coords, x) ==
    LET at == {i \in 1..Len(sorted_coords) : sorted_coords[i][1] = x}
    IN  sorted_coords[CHOOSE i \in at : \A j \in at : i <= j]

FillColumns(sorted_coords, existing_x_values, max_x) ==
    [k \in 1..Max2(max_x, 0) |->
        IF (k - 1) \in existing_x_values
        THEN <<k - 1, FirstWithX(sorted_coords, k - 1)[2]>>
        ELSE <<k - 1, 0>>]

SampleSorted(sampled) ==
    IF sampled.ok THEN Returned(SortedByX(sampled.val)) ELSE Raised

FillSorted(sorted_coords, max_x) ==
    IF sorted_coords = <<>> THEN Raised              \* sorted_coords[0][0] in the print
    ELSE SampleSorted(regular_sample(
             FillColumns(sorted_coords,
                         {sorted_coords[k][1] : k \in 1..Len(sorted_coords)}, max_x),
             NSample))

\* A fill_missing_coords that hands back every gap-filled column, unsampled.
fill_missing_coords_unsampled(filtered, max_x, max_y) ==
    IF filtered = <<>> THEN Raised
    ELSE Returned(FillColumns(SortedByX(filtered),
                              {filtered[k][1] : k \in 1..Len(filtered)}, max_x))

\* fill_missing_coords: the gap-filled columns, then regular_sample(updated_coords, 100),
\* sorted by x.
fill_missing_coords(filtered, max_x, max_y) == FillSorted(SortedByX(filtered), max_x)

\* A fallback that leaves the polygon empty.
FlatPolygonMissing(width) == <<>>

\* utils.py:264: the flat polygon, one point per i in range(current_width + 1).
FlatPolygon(width) == [k \in 1..(width + 1) |-> <<k - 1, 0>>]

\* The divisor of len(updated_coords) that gives width_N (utils.py:321).
NBuckets == 100

\* Lines 321-337: chunks of width_N entries, each giving int(round(mean y)).
\* range(0, n, 0) raises ValueError.
RECURSIVE ChunkMeans(_, _, _)
ChunkMeans(coords, i, width_N) ==
    IF i > Len(coords) THEN <<>>
    ELSE LET chunk == SubSeq(coords, i, Min2(i + width_N - 1, Len(coords)))
             ys == [k \in 1..Len(chunk) |-> chunk[k][2]]
         IN  <<RoundHalfEven(SumSeq(ys), Len(ys))>> \o ChunkMeans(coords, i + width_N, width_N)

discretize(coords) ==
    LET width_N == Len(coords) \div NBuckets
    IN  IF width_N = 0 THEN Raised ELSE Returned(ChunkMeans(coords, 1, width_N))

(***************************************************************************)
(* Box geometry.  A corner-form box is <<x1, y1, x2, y2>>; a centre-form   *)
(* box is <<cx, cy, w, h>>.  A float quotient is kept as the pair of its   *)
(* numerator and denominator, so that 0/0 (NaN) and x/0 (infinity) stay    *)
(* visible.                                                                *)
(***************************************************************************)
\* xywh2xyxy; the inputs have even w and h, so the halves are exact.
xywh2xyxy(x) ==
    <<x[1] - x[3] \div 2, x[2] - x[4] \div 2, x[1] + x[3] \div 2, x[2] + x[4] \div 2>>

\* box_area of box_iou.
box_area(box) == (box[3] - box[1]) * (box[4] - box[2])

\* inter of box_iou: (min(rb) - max(lt)).clamp(0).prod()
box_inter(box1, box2) ==
    Max2(Min2(box1[3], box2[3]) - Max2(box1[1], box2[1]), 0)
        * Max2(Min2(box1[4], box2[4]) - Max2(box1[2], box2[2]), 0)

\* box_iou for one pair: inter / (area1 + area2 - inter), undivided.
box_iou(box1, box2) ==
    [num |-> box_inter(box1, box2),
     den |-> box_area(box1) + box_area(box2) - box_inter(box1, box2)]

IsNaN(q) == q.den = 0 /\ q.num = 0
IsInf(q) == q.den = 0 /\ q.num # 0

\* q > t in IEEE arithmetic, t = [num, den] with den > 0: false for NaN.
FloatGT(q, t) ==
    IF q.den > 0 THEN q.num * t.den > t.num * q.den
    ELSE IF q.den < 0 THEN q.num * t.den < t.num * q.den
    ELSE q.num > 0

(***************************************************************************)
(* non_max_suppression.  Scores are in tenths (obj, class scores) and      *)
(* confidences obj * cls in hundredths; conf_thres is in hundredths.       *)
(* A raw row is [xywh, obj, cls]; a detection is [box, conf, cls].         *)
(***************************************************************************)
max_wh == 4096
max_det == 300
max_nms == 30000
time_limit == 10
\* The redundancy requirement switched off.
redundant_off == FALSE
redundant == TRUE
\* Merge-NMS switched on.
merge_on == TRUE
merge == FALSE

\* argsort(descending=True), stable: the indices 1..Len(scores) sorted by score, the
\* earlier index first on a tie.  ArgsortRanks is the place of each index in that order.
ArgsortRanks(scores) ==
    [i \in 1..Len(scores) |->
        1 + Cardinality({j \in 1..Len(scores) :
                            scores[j] > scores[i] \/ (scores[j] = scores[i] /\ j < i)})] \o <<>>

ArgsortInvert(ranks) ==
    [r \in 1..Len(ranks) |-> CHOOSE i \in 1..Len(ranks) : ranks[i] = r] \o <<>>

ArgsortDesc(scores) == ArgsortInvert(ArgsortRanks(scores \o <<>>))

\* An nms that drops a box when any higher-scored box overlaps it, kept or not.
nms_against_all(boxes, scores, iou_threshold) ==
    LET order == ArgsortDesc(scores)
    IN  SelectSeq(order,
                  LAMBDA j : ~\E i \in 1..Len(scores) :
                                 /\ i # j
                                 /\ (scores[i] > scores[j] \/ (scores[i] = scores[j] /\ i < j))
                                 /\ FloatGT(box_iou(boxes[i], boxes[j]), iou_threshold))

\* torchvision.ops.nms: in descending score order a box is kept unless a kept box
\* has IoU > iou_threshold with it; the kept indices, in that order.
\* NmsGreedy goes through order[lo..hi], first half then second half.
NmsVisit(boxes, j, kept, iou_threshold) ==
    IF \E k \in 1..Len(kept) : FloatGT(box_iou(boxes[kept[k]], boxes[j]), iou_threshold)
    THEN kept
    ELSE Append(kept, j)

RECURSIVE NmsGreedy(_, _, _, _, _, _)
\* The second half, gone through once kept, the result of the first half, is known.
NmsGreedyFrom(boxes, order, lo, hi, kept, iou_threshold) ==
    IF Len(kept) >= 0 THEN NmsGreedy(boxes, order, lo, hi, kept, iou_threshold) ELSE kept

NmsGreedy(boxes, order, lo, hi, kept, iou_threshold) ==
    IF lo > hi THEN kept
    ELSE IF lo = hi THEN NmsVisit(boxes, order[lo], kept, iou_threshold)
    ELSE NmsGreedyFrom(boxes, order, (lo + hi) \div 2 + 1, hi,
                       NmsGreedy(boxes, order, lo, (lo + hi) \div 2, kept, iou_threshold),
                       iou_threshold)

nms(boxes, scores, iou_threshold) ==
    NmsGreedy(boxes \o <<>>, ArgsortDesc(scores), 1, Len(scores), <<>>, iou_threshold)

\* utils.py:446: x = x[xc[xi]], xc = prediction[..., 4] > conf_t
ConfidentRows(image, conf_t) ==
    SelectSeq(image, LAMBDA r : r.obj * 10 > conf_t)

\* utils.py:449-455: one full-confidence one-hot row per a-priori label <<cls, cx, cy, w, h>>.
LabelRows(l, nc) ==
    [k \in 1..Len(l) |->
        [xywh |-> <<l[k][2], l[k][3], l[k][4], l[k][5]>>,
         obj |-> 10,
         cls |-> [c \in 1..nc |-> IF c = l[k][1] + 1 THEN 10 ELSE 0]]]

\* x[:, 5:].max(1): the best class score and its (first) index, 0-based.
BestClass(r) ==
    CHOOSE j \in 1..Len(r.cls) :
        /\ \A c \in 1..Len(r.cls) : r.cls[c] <= r.cls[j]
        /\ \A c \in 1..(j - 1) : r.cls[c] < r.cls[j]

\* utils.py:468-470: one detection per (row, class) with conf > conf_t, row-major.
RECURSIVE MultiLabelRows(_, _, _, _)
MultiLabelRows(x, i, j, conf_t) ==
    IF i > Len(x) THEN <<>>
    ELSE IF j > Len(x[i].cls) THEN MultiLabelRows(x, i + 1, 1, conf_t)
    ELSE (IF x[i].cls[j] * x[i].obj > conf_t
          THEN <<[box |-> xywh2xyxy(x[i].xywh), conf |-> x[i].cls[j] * x[i].obj, cls |-> j - 1]>>
          ELSE <<>>) \o MultiLabelRows(x, i, j + 1, conf_t)

\* utils.py:472-473: the best class of each row, kept when conf > conf_t.
BestClassRows(x, conf_t) ==
    SelectSeq([k \in 1..Len(x) |->
                  [box |-> xywh2xyxy(x[k].xywh),
                   conf |-> x[k].cls[BestClass(x[k])] * x[k].obj,
                   cls |-> BestClass(x[k]) - 1]],
              LAMBDA d : d.conf > conf_t)

\* The filter by class left out.
FilterByClassNone(x, class_filter) == x

\* utils.py:476-477
FilterByClass(x, class_filter) ==
    IF class_filter.given THEN SelectSeq(x, LAMBDA d : d.cls \in class_filter.ids) ELSE x

\* utils.py:446-477: the detections matrix of one image (x at line 484); <<>> also
\* when line 459 leaves the iteration.
Detections(image, l, nc, conf_t, class_filter, multi) ==
    LET x == ConfidentRows(image, conf_t) \o LabelRows(l, nc)
    IN  IF x = <<>> THEN <<>>
        ELSE FilterByClass(IF multi /\ nc > 1
                           THEN MultiLabelRows(x, 1, 1, conf_t)
                           ELSE BestClassRows(x, conf_t),
                           class_filter)

\* utils.py:487-488: only the max_nms most confident rows go into nms.
TruncateToMaxNms(x) ==
    IF Len(x) > max_nms
    THEN LET order == ArgsortDesc([k \in 1..Len(x) |-> x[k].conf])
         IN  [k \in 1..max_nms |-> x[order[k]]]
    ELSE x

\* The offset by class left out: every class shares one coordinate frame.
OffsetBoxShared(d, agn) == d.box

\* utils.py:491-492: boxes offset by class unless agn.
OffsetBox(d, agn) ==
    LET c == d.cls * (IF agn THEN 0 ELSE max_wh)
    IN  <<d.box[1] + c, d.box[2] + c, d.box[3] + c, d.box[4] + c>>

\* The limit on the detections of an image left out.
LimitDetectionsUncapped(i) == i

\* utils.py:494-495
LimitDetections(i) == IF Len(i) > max_det THEN SubSeq(i, 1, max_det) ELSE i

\* utils.py:498-500: the weighted mean of the boxes overlapping kept box k, the
\* weights being their scores; the quotient is taken on the integer grid.
MergedBox(x, boxes, k, iou_t) ==
    LET over == {m \in 1..Len(x) : FloatGT(box_iou(boxes[k], boxes[m]), iou_t)}
        w == SumSeq([m \in 1..Len(x) |-> IF m \in over THEN x[m].conf ELSE 0])
        coord(c) == SumSeq([m \in 1..Len(x) |-> IF m \in over THEN x[m].conf * x[m].box[c] ELSE 0])
    IN  IF w = 0 THEN <<"nan", "nan", "nan", "nan">>
        ELSE <<coord(1) \div w, coord(2) \div w, coord(3) \div w, coord(4) \div w>>

\* utils.py:502: iou.sum(1) > 1
IsRedundant(boxes, k, iou_t) ==
    Cardinality({m \in 1..Len(boxes) : FloatGT(box_iou(boxes[k], boxes[m]), iou_t)}) > 1

\* utils.py:497-502, the body of the merge branch: the kept rows with merged boxes,
\* those without another overlapping box dropped when redundant.
MergeBranch(x, boxes, i, iou_t) ==
    LET xm == [k \in 1..Len(x) |->
                  IF \E p \in 1..Len(i) : i[p] = k
                  THEN [x[k] EXCEPT !.box = MergedBox(x, boxes, k, iou_t)]
                  ELSE x[k]]
        ir == IF redundant
              THEN SelectSeq(i, LAMBDA k : IsRedundant(boxes, k, iou_t))
              ELSE i
    IN  [k \in 1..Len(ir) |-> xm[ir[k]]]

\* utils.py:496-504 with the setting of line 439 at merge_setting (n is the row count
\* before truncation, at line 484).
MergeStepWhen(merge_setting, x, boxes, i, n, iou_t) ==
    IF merge_setting /\ 1 < n /\ n < 3000
    THEN MergeBranch(x, boxes, i, iou_t)
    ELSE [k \in 1..Len(i) |-> x[i[k]]]

MergeStep(x, boxes, i, n, iou_t) == MergeStepWhen(merge, x, boxes, i, n, iou_t)

SuppressRowsWhen(merge_setting, x, n, iou_t, agn) ==
    MergeStepWhen(merge_setting, x,
                  [k \in 1..Len(x) |-> OffsetBox(x[k], agn)],
                  LimitDetections(nms([k \in 1..Len(x) |-> OffsetBox(x[k], agn)],
                                      [k \in 1..Len(x) |-> x[k].conf], iou_t)),
                  n, iou_t)

SuppressRows(x, n, iou_t, agn) == SuppressRowsWhen(merge, x, n, iou_t, agn)

\* utils.py:484-504: the suppression step on the detections matrix x of one image.
SuppressionStepWhen(merge_setting, x, iou_t, agn) ==
    IF Len(x) = 0 THEN <<>>
    ELSE SuppressRowsWhen(merge_setting, TruncateToMaxNms(x), Len(x), iou_t, agn)

SuppressionStep(x, iou_t, agn) == SuppressionStepWhen(merge, x, iou_t, agn)

(***************************************************************************)
(* Inputs of the boundary extraction.                                      *)
(***************************************************************************)
MaxQ == 2        \* widths are q * 100 + r, q in 0..MaxQ
MaxPix == 2      \* nonzero pixels in a mask

WidthRemainders == {0, 1, 99}
\* An image has at least one column.
Widths == ({q * 100 + r : q \in 0..MaxQ, r \in WidthRemainders} \cup {600}) \ {0}
Heights == {1, 3, 360}
PixelValues == {255, 128}

\* Columns and rows where the nonzero pixels of the masks are put.
PixelCols(w) == {c \in {0, w \div 100, w - 1} : 0 <= c /\ c < w}
PixelRows(h) == {r \in {0, h \div 2, h - 1} : 0 <= r /\ r < h}

\* The subsets of S with at most k elements.
RECURSIVE SubsetsUpTo(_, _)
SubsetsUpTo(S, k) ==
    IF k = 0 THEN {{}}
    ELSE LET prev == SubsetsUpTo(S, k - 1)
         IN  prev \cup {s \cup {p} : s \in prev, p \in S}

\* One value per pixel position, and at most one pixel that is nonzero without being 255.
OnePerPixel(s) ==
    /\ \A p, q \in s : (p.y = q.y /\ p.x = q.x) => p = q
    /\ Cardinality({p \in s : p.v # 255}) <= 1

MasksOf(h, w) ==
    {[h |-> h, w |-> w, px |-> px] :
        px \in {s \in SubsetsUpTo([y : PixelRows(h), x : PixelCols(w), v : PixelValues], MaxPix) :
                    OnePerPixel(s)}}

Masks == UNION {MasksOf(h, w) : h \in Heights, w \in Widths}

\* classes=None, and classes=[...]
NoClasses == [given |-> FALSE, ids |-> {}]
OnlyClasses(ids) == [given |-> TRUE, ids |-> ids]

ProfileIdle ==
    /\ segmentation_matrix = [h |-> 0, w |-> 0, px |-> {}]
    /\ current_width = 0
    /\ current_height = 0
    /\ polygon_coords = <<>>
    /\ filtered_polygon_coords = <<>>
    /\ updated_coords = <<>>
    /\ y_coords = <<>>
    /\ ppc = "idle"

NmsIdle ==
    /\ prediction = <<>>
    /\ conf_thres = 0
    /\ iou_thres = [num |-> 0, den |-> 1]
    /\ classes = NoClasses
    /\ agnostic = FALSE
    /\ multi_label = FALSE
    /\ labels = <<>>
    /\ xi = 0
    /\ x_nms = <<>>
    /\ output = <<>>
    /\ elapsed = 0
    /\ warned = FALSE
    /\ npc = "idle"

IouIdle ==
    /\ arg_box1 = <<0, 0, 0, 0>>
    /\ arg_box2 = <<0, 0, 0, 0>>
    /\ iou12 = [num |-> 0, den |-> 1]
    /\ iou21 = [num |-> 0, den |-> 1]
    /\ iou11 = [num |-> 0, den |-> 1]
    /\ ipc = "idle"

LetterIdle ==
    /\ img0_shape = <<0, 0>>
    /\ new_shape = <<0, 0>>
    /\ auto = FALSE
    /\ scaleFill = FALSE
    /\ scaleup = FALSE
    /\ stride = 0
    /\ ratio = <<>>
    /\ pad = <<>>
    /\ new_unpad = <<0, 0>>
    /\ border = [top |-> 0, bottom |-> 0, left |-> 0, right |-> 0]
    /\ coords0 = <<>>
    /\ img1_coords = <<>>
    /\ lpc = "idle"

\* No capture: self.cap = None.
NoCap == [open |-> FALSE, file |-> 0, pos |-> 0]

LoadIdle ==
    /\ files = <<>>
    /\ nf = 0
    /\ count = 0
    /\ cap = NoCap
    /\ frame = 0
    /\ yielded = <<>>
    /\ last_call = "none"
    /\ lipc = "idle"

ProfileInit ==
    /\ segmentation_matrix \in Masks
    /\ current_width = segmentation_matrix.w      \* show_seg_result hands edge_pixels.shape[1]
    /\ current_height = segmentation_matrix.h
    /\ polygon_coords = <<>>
    /\ filtered_polygon_coords = <<>>
    /\ updated_coords = <<>>
    /\ y_coords = <<>>
    /\ ppc = "convert"
    /\ NmsIdle /\ IouIdle /\ LetterIdle /\ LoadIdle

\* utils.py:261-265: the polygon, or the flat polygon when it is empty.
ConvertStep ==
    /\ ppc = "convert"
    /\ LET coords == convert_seg_to_arr(segmentation_matrix)
       IN  polygon_coords' = IF Len(coords) = 0
                             THEN FlatPolygon(current_width)
                             ELSE coords
    /\ ppc' = "filter"
    /\ UNCHANGED <<segmentation_matrix, current_width, current_height,
                   filtered_polygon_coords, updated_coords, y_coords>>
    /\ UNCHANGED <<nmsVars, iouVars, letterVars, loadVars>>

\* utils.py:290
FilterStep ==
    /\ ppc = "filter"
    /\ filtered_polygon_coords' = remove_bottom_edge(polygon_coords)
    /\ ppc' = "fill"
    /\ UNCHANGED <<segmentation_matrix, current_width, current_height,
                   polygon_coords, updated_coords, y_coords>>
    /\ UNCHANGED <<nmsVars, iouVars, letterVars, loadVars>>

\* utils.py:306
FillStep ==
    /\ ppc = "fill"
    /\ LET r == fill_missing_coords(filtered_polygon_coords, current_width, current_height)
       IN  IF r.ok
           THEN /\ ppc' = "discretize"
                /\ updated_coords' = r.val
           ELSE /\ ppc' = "raised"
                /\ UNCHANGED updated_coords
    /\ UNCHANGED <<segmentation_matrix, current_width, current_height,
                   polygon_coords, filtered_polygon_coords, y_coords>>
    /\ UNCHANGED <<nmsVars, iouVars, letterVars, loadVars>>

\* utils.py:321-359
DiscretizeStep ==
    /\ ppc = "discretize"
    /\ LET r == discretize(updated_coords)
       IN  IF r.ok
           THEN /\ ppc' = "returned"
                /\ y_coords' = r.val
           ELSE /\ ppc' = "raised"
                /\ UNCHANGED y_coords
    /\ UNCHANGED <<segmentation_matrix, current_width, current_height,
                   polygon_coords, filtered_polygon_coords, updated_coords>>
    /\ UNCHANGED <<nmsVars, iouVars, letterVars, loadVars>>

ProfileNext == ConvertStep \/ FilterStep \/ FillStep \/ DiscretizeStep

SpecProfile == ProfileInit /\ [][ProfileNext]_vars

(***************************************************************************)
(* Properties of the boundary extraction (checked under SpecProfile).      *)
(***************************************************************************)
\* The pixels convert_seg_to_arr takes for edge pixels.
EdgePixels == {p \in segmentation_matrix.px : p.v = 255}

\* The height of column x: the largest bottom-origin y of its edge pixels, 0 without one.
ColumnHeight(x) ==
    LET ys == {segmentation_matrix.h - 1 - p.y : p \in {q \in EdgePixels : q.x = x}}
    IN  IF ys = {} THEN 0 ELSE CHOOSE m \in ys : \A y \in ys : y <= m

\* C1: for every mask whose working width is at least 100, get_drivable_area_in_1D
\* does not raise and the profile it returns has exactly 100 y-values.
C1_ProfileHas100Samples ==
    current_width >= 100 =>
        /\ ppc # "raised"
        /\ ppc = "returned" => Len(y_coords) = 100

C1_Witness ==
    /\ ppc = "returned"
    /\ current_width = 199
    /\ EdgePixels # {}
    /\ Len(y_coords) = 100

\* C2: a mask without any edge pixel does not make get_drivable_area_in_1D fail: the
\* flat polygon at y = 0 is taken and the 100 samples returned are all 0.
C2_EmptyMaskGivesFlatProfile ==
    (EdgePixels = {} /\ ppc # "idle") =>
        /\ ppc # "raised"
        /\ ppc \notin {"convert"} => \A k \in 1..Len(polygon_coords) : polygon_coords[k] = <<k - 1, 0>>
        /\ ppc = "returned" => (Len(y_coords) = 100 /\ \A k \in 1..100 : y_coords[k] = 0)

C2_Witness ==
    /\ ppc = "returned"
    /\ segmentation_matrix.px = {}
    /\ current_width = 600
    /\ current_height = 360
    /\ Len(polygon_coords) = 601
    /\ y_coords = [k \in 1..100 |-> 0]

\* C3: with a working width below 100 get_drivable_area_in_1D returns one sample per
\* column (exactly width samples, sample k being the height of column k) or raises;
\* it returns no other profile.
C3_NarrowGivesColumnsOrError ==
    (current_width < 100 /\ ppc = "returned") =>
        /\ Len(y_coords) = current_width
        /\ \A k \in 1..Len(y_coords) : y_coords[k] = ColumnHeight(k - 1)

\* The gap-filled column list: one entry (x, height of column x) for every x in [0, W).
AllColumns == [k \in 1..current_width |-> <<k - 1, ColumnHeight(k - 1)>>]

\* C12: for a width W >= 100 the returned y-values are the integer-rounded means of the
\* column heights over the contiguous chunks of W // 100 columns of the gap-filled
\* column list (one entry per x in [0, W)), the last partial chunk included.
C12_ChunkMeansOfAllColumns ==
    (current_width >= 100 /\ ppc = "returned") =>
        y_coords = ChunkMeans(AllColumns, 1, current_width \div 100)

NonzeroPixels == {p \in segmentation_matrix.px : p.v # 0}

\* The polygon convert_seg_to_arr handed to get_drivable_area_in_1D holds exactly one
\* point (x, height - y - 1) per pixel of P, and is empty (the flat polygon is then
\* taken in its place) exactly when P is empty.
PolygonIsExactly(P) ==
    IF P = {}
    THEN polygon_coords = FlatPolygon(current_width)
    ELSE /\ Len(polygon_coords) = Cardinality(P)
         /\ {polygon_coords[k] : k \in 1..Len(polygon_coords)}
                = {<<p.x, segmentation_matrix.h - p.y - 1>> : p \in P}

\* C14 as stated: a point (x, height - y - 1) is emitted for every nonzero pixel and
\* nothing for zero pixels; the polygon is empty exactly when no pixel is nonzero.
C14_EveryNonzeroPixel ==
    ppc \in {"filter", "fill", "discretize", "returned", "raised"} => PolygonIsExactly(NonzeroPixels)

\* C14, amended: a point (x, height - y - 1) is emitted for every pixel of value 255 and
\* nothing for any other pixel; the polygon is empty exactly when no pixel is 255.
C14_EveryPixelAt255 ==
    ppc \in {"filter", "fill", "discretize", "returned", "raised"} => PolygonIsExactly(EdgePixels)

\* A mask of height 3 with one pixel at 255 in the top row and one nonzero pixel below 255.
C14_Witness ==
    /\ ppc = "filter"
    /\ current_height = 3
    /\ \E p \in EdgePixels : p.y = 0 /\ polygon_coords = <<(<<p.x, 2>>)>>
    /\ NonzeroPixels \ EdgePixels # {}

(***************************************************************************)
(* Inputs of non_max_suppression.                                          *)
(***************************************************************************)
MaxRows == 3       \* raw rows of an image
MaxBatch == 3      \* images of a batch
TickSeconds == 6   \* the time one image may take

\* The sequences over S of length at most n.
RECURSIVE SeqsUpTo(_, _)
SeqsUpTo(S, n) ==
    IF n = 0 THEN {<<>>}
    ELSE LET prev == SeqsUpTo(S, n - 1)
         IN  prev \cup {Append(q, e) : q \in {p \in prev : Len(p) = n - 1}, e \in S}

Row(b, o, c) == [xywh |-> b, obj |-> o, cls |-> c]

\* Centre-form boxes: corners (0,0,10,10), (1,1,11,11), (2,2,12,12).
OverlapBoxes == {<<5, 5, 10, 10>>, <<6, 6, 10, 10>>, <<7, 7, 10, 10>>}
PointBox == <<5, 5, 0, 0>>

\* Rows that pass every filter: confidence 0.9 or 0.8, class 0 or 1.
CleanRows ==
    {Row(b, 10, c) : b \in OverlapBoxes, c \in {<<9, 0>>, <<8, 0>>, <<0, 8>>}}
        \cup {Row(PointBox, 10, <<8, 0>>)}

\* Rows the filters act on: low objectness, low class scores, two good classes.
FilterRows ==
    {Row(<<5, 5, 10, 10>>, 2, <<9, 0>>),
     Row(<<6, 6, 10, 10>>, 5, <<4, 6>>),
     Row(<<7, 7, 10, 10>>, 10, <<9, 8>>),
     Row(<<5, 5, 10, 10>>, 10, <<9, 0>>),
     Row(<<6, 6, 10, 10>>, 10, <<0, 8>>),
     Row(<<7, 7, 10, 10>>, 10, <<2, 1>>)}

IouThresholds == {[num |-> 1, den |-> 2], [num |-> 9, den |-> 20]}

Input(p, ct, it, cl, ag, ml, lb) ==
    [prediction |-> p, conf_thres |-> ct, iou_thres |-> it, classes |-> cl,
     agnostic |-> ag, multi_label |-> ml, labels |-> lb]

\* One image, every filter passed: what the suppression does.
SuppressionInputs ==
    {Input(<<img>>, 25, it, NoClasses, ag, FALSE, <<>>) :
        img \in SeqsUpTo(CleanRows, MaxRows), it \in IouThresholds, ag \in BOOLEAN}

\* One image, the filters varied.
FilterInputs ==
    {Input(<<img>>, ct, [num |-> 9, den |-> 20], cl, FALSE, ml, lb) :
        img \in SeqsUpTo(FilterRows, MaxRows), ct \in {25, 50, 100}, cl \in {NoClasses, OnlyClasses({0})},
        ml \in BOOLEAN, lb \in {<<>>, << <<(<<1, 6, 6, 10, 10>>)>> >>}}

\* Batches of images with and without candidates.
BatchImages ==
    {<<>>,
     <<Row(<<5, 5, 10, 10>>, 2, <<9, 0>>)>>,
     <<Row(<<5, 5, 10, 10>>, 10, <<9, 0>>)>>,
     <<Row(<<5, 5, 10, 10>>, 10, <<9, 0>>), Row(<<6, 6, 10, 10>>, 10, <<8, 0>>)>>}

BatchInputs ==
    {Input(p, 25, [num |-> 9, den |-> 20], NoClasses, FALSE, FALSE, <<>>) :
        p \in SeqsUpTo(BatchImages, MaxBatch)}

NmsInputs == SuppressionInputs \cup FilterInputs \cup BatchInputs

NmsStart(in) ==
    /\ prediction = in.prediction
    /\ conf_thres = in.conf_thres
    /\ iou_thres = in.iou_thres
    /\ classes = in.classes
    /\ agnostic = in.agnostic
    /\ multi_label = in.multi_label
    /\ labels = in.labels
    /\ xi = 1
    /\ x_nms = [k \in 1..Len(in.prediction) |-> <<>>]
    /\ output = [k \in 1..Len(in.prediction) |-> <<>>]     \* utils.py:442
    /\ elapsed = 0                                          \* utils.py:441
    /\ warned = FALSE
    /\ npc = "loop"
    /\ ProfileIdle /\ IouIdle /\ LetterIdle /\ LoadIdle

NmsInit == \E in \in NmsInputs : NmsStart(in)

\* nc = prediction.shape[2] - 5
nc == 2

\* The detections matrix of image xi at line 484.
CurrentDetections ==
    Detections(prediction[xi], IF labels = <<>> THEN <<>> ELSE labels[xi], nc,
               conf_thres, classes, multi_label)

\* utils.py:505-507: after an image is stored, stop when the budget is spent.
AfterStore(spent) == IF spent > time_limit THEN "returned" ELSE "loop"

\* One iteration that ends at a `continue` (lines 459, 486): nothing is stored and
\* the time is not looked at.
NmsSkipImage ==
    /\ npc = "loop"
    /\ xi <= Len(prediction)
    /\ CurrentDetections = <<>>
    /\ \E d \in {0, TickSeconds} : elapsed' = elapsed + d
    /\ xi' = xi + 1
    /\ UNCHANGED <<prediction, conf_thres, iou_thres, classes, agnostic, multi_label,
                   labels, x_nms, output, warned, npc>>
    /\ UNCHANGED <<profileVars, iouVars, letterVars, loadVars>>

\* One iteration that reaches line 504: the image's detections are stored, then the
\* elapsed time is compared with time_limit.
NmsStoreImage ==
    /\ npc = "loop"
    /\ xi <= Len(prediction)
    /\ CurrentDetections # <<>>
    /\ x_nms' = [x_nms EXCEPT ![xi] = CurrentDetections]
    /\ output' = [output EXCEPT ![xi] = SuppressionStep(CurrentDetections, iou_thres, agnostic)]
    /\ \E d \in {0, TickSeconds} :
          /\ elapsed' = elapsed + d
          /\ warned' = (elapsed + d > time_limit)
          /\ npc' = AfterStore(elapsed + d)
          /\ xi' = IF AfterStore(elapsed + d) = "loop" THEN xi + 1 ELSE xi
    /\ UNCHANGED <<prediction, conf_thres, iou_thres, classes, agnostic, multi_label, labels>>
    /\ UNCHANGED <<profileVars, iouVars, letterVars, loadVars>>

\* The loop has run over the whole batch: return output (line 509).
NmsReturn ==
    /\ npc = "loop"
    /\ xi > Len(prediction)
    /\ npc' = "returned"
    /\ UNCHANGED <<prediction, conf_thres, iou_thres, classes, agnostic, multi_label,
                   labels, xi, x_nms, output, elapsed, warned>>
    /\ UNCHANGED <<profileVars, iouVars, letterVars, loadVars>>

NmsNext == NmsSkipImage \/ NmsStoreImage \/ NmsReturn

SpecNMS == NmsInit /\ [][NmsNext]_vars

(***************************************************************************)
(* box_iou on pairs of corner-form boxes.                                  *)
(***************************************************************************)
MaxCoord == 2      \* box corners lie in 0..MaxCoord

CornerBoxes == {<<x1, y1, x2, y2>> : x1 \in 0..MaxCoord, y1 \in 0..MaxCoord,
                                     x2 \in 0..MaxCoord, y2 \in 0..MaxCoord}

IouInit ==
    /\ arg_box1 \in CornerBoxes
    /\ arg_box2 \in CornerBoxes
    /\ iou12 = [num |-> 0, den |-> 1]
    /\ iou21 = [num |-> 0, den |-> 1]
    /\ iou11 = [num |-> 0, den |-> 1]
    /\ ipc = "call"
    /\ ProfileIdle /\ NmsIdle /\ LetterIdle /\ LoadIdle

\* box_iou(arg_box1, arg_box2), box_iou(arg_box2, arg_box1) and box_iou(arg_box1, arg_box1).
IouCall ==
    /\ ipc = "call"
    /\ iou12' = box_iou(arg_box1, arg_box2)
    /\ iou21' = box_iou(arg_box2, arg_box1)
    /\ iou11' = box_iou(arg_box1, arg_box1)
    /\ ipc' = "done"
    /\ UNCHANGED <<arg_box1, arg_box2>>
    /\ UNCHANGED <<profileVars, nmsVars, letterVars, loadVars>>

IouNext == IouCall

SpecIoU == IouInit /\ [][IouNext]_vars

\* Float comparisons of quotients [num, den]: every comparison with NaN is false.
FloatEQ(p, q) ==
    /\ ~IsNaN(p) /\ ~IsNaN(q)
    /\ IF p.den = 0 \/ q.den = 0
       THEN p.den = 0 /\ q.den = 0 /\ (p.num > 0 <=> q.num > 0)
       ELSE p.num * q.den = q.num * p.den

FloatGE0(q) ==
    IF q.den > 0 THEN q.num >= 0 ELSE IF q.den < 0 THEN q.num <= 0 ELSE q.num > 0

FloatLE1(q) ==
    IF q.den > 0 THEN q.num <= q.den ELSE IF q.den < 0 THEN q.num >= q.den ELSE q.num < 0

Degenerate(b) == b[3] <= b[1] \/ b[4] <= b[2]

\* C8: box_iou never yields NaN or infinity: a zero union gives 0, and a degenerate
\* box (x2 <= x1 or y2 <= y1) is counted with area 0.
C8_IouGuarded ==
    ipc = "done" =>
        /\ ~IsNaN(iou12) /\ ~IsInf(iou12)
        /\ Degenerate(arg_box1) => box_area(arg_box1) = 0
        /\ Degenerate(arg_box2) => box_area(arg_box2) = 0

\* C9: for all pairs of corner-form boxes box_iou is symmetric and lies in [0, 1],
\* and box_iou(a, a) = 1 for every box with x1 < x2 and y1 < y2.
C9_IouSymmetricBounded ==
    ipc = "done" =>
        /\ FloatEQ(iou12, iou21)
        /\ FloatGE0(iou12) /\ FloatLE1(iou12)
        /\ ~Degenerate(arg_box1) => FloatEQ(iou11, [num |-> 1, den |-> 1])

(***************************************************************************)
(* letterbox and scale_coords.  Floats are fractions [num, den], den > 0,  *)
(* in lowest terms.  Shapes are <<height, width>>.                         *)
(***************************************************************************)
RECURSIVE Gcd(_, _)
Gcd(a, b) == IF b = 0 THEN a ELSE Gcd(b, a % b)

Abs(a) == IF a < 0 THEN -a ELSE a

Frac(n, d) ==
    LET g == Gcd(Abs(n), Abs(d))
        sgn == IF d < 0 THEN -1 ELSE 1
    IN  IF g = 0 THEN [num |-> n, den |-> d]
        ELSE [num |-> sgn * (n \div g), den |-> sgn * (d \div g)]

FracOf(n) == [num |-> n, den |-> 1]
FracSub(p, q) == Frac(p.num * q.den - q.num * p.den, p.den * q.den)
FracAdd(p, q) == Frac(p.num * q.den + q.num * p.den, p.den * q.den)
FracMul(p, q) == Frac(p.num * q.num, p.den * q.den)
FracDiv(p, q) == Frac(p.num * q.den, p.den * q.num)
FracLE(p, q) == p.num * q.den <= q.num * p.den
FracMin(p, q) == IF FracLE(p, q) THEN p ELSE q

\* clamp_(lo, hi) of one coordinate
Clamp(p, lo, hi) ==
    IF FracLE(p, FracOf(lo)) THEN FracOf(lo)
    ELSE IF FracLE(FracOf(hi), p) THEN FracOf(hi)
    ELSE p

\* int(round(f)) of a fraction
RoundFrac(f) == RoundHalfEven(f.num, f.den)

\* A split that rounds the half padding once and puts it on both sides.
LetterboxResultSameSides(rt, unpad, dw, dh) ==
    [ratio |-> rt,
     new_unpad |-> unpad,
     pad |-> <<Frac(dw, 2), Frac(dh, 2)>>,
     top |-> RoundFrac(Frac(dh, 2)),
     bottom |-> RoundFrac(Frac(dh, 2)),
     left |-> RoundFrac(Frac(dw, 2)),
     right |-> RoundFrac(Frac(dw, 2))]

\* letterbox, lines 623-655: what it returns (ratio, (dw, dh)) and what it hands to
\* cv2.resize (new_unpad) and cv2.copyMakeBorder (top, bottom, left, right).
LetterboxResult(rt, unpad, dw, dh) ==
    [ratio |-> rt,
     new_unpad |-> unpad,
     pad |-> <<Frac(dw, 2), Frac(dh, 2)>>,                                   \* lines 644-645
     top |-> RoundFrac(FracSub(Frac(dh, 2), Frac(1, 10))),                   \* line 650
     bottom |-> RoundFrac(FracAdd(Frac(dh, 2), Frac(1, 10))),
     left |-> RoundFrac(FracSub(Frac(dw, 2), Frac(1, 10))),                  \* line 651
     right |-> RoundFrac(FracAdd(Frac(dw, 2), Frac(1, 10)))]

LetterboxPadded(shape, target, r, is_auto, is_fill, strd, unpad) ==
    IF is_auto                                                               \* lines 637-638
    THEN LetterboxResult(<<r, r>>, unpad,
                         (target[2] - unpad[1]) % strd, (target[1] - unpad[2]) % strd)
    ELSE IF is_fill                                                          \* lines 639-642
    THEN LetterboxResult(<<Frac(target[2], shape[2]), Frac(target[1], shape[1])>>,
                         <<target[2], target[1]>>, 0, 0)
    ELSE LetterboxResult(<<r, r>>, unpad, target[2] - unpad[1], target[1] - unpad[2])

LetterboxScaled(shape, target, r, is_auto, is_fill, strd) ==
    LetterboxPadded(shape, target, r, is_auto, is_fill, strd,
                    <<RoundFrac(FracMul(FracOf(shape[2]), r)),               \* line 635
                      RoundFrac(FracMul(FracOf(shape[1]), r))>>)

letterbox(shape, target, is_auto, is_fill, is_scaleup, strd) ==
    LetterboxScaled(shape, target,
                    IF is_scaleup
                    THEN FracMin(Frac(target[1], shape[1]), Frac(target[2], shape[2]))
                    ELSE FracMin(FracMin(Frac(target[1], shape[1]), Frac(target[2], shape[2])),
                                 FracOf(1)),                                 \* lines 628-631
                    is_auto, is_fill, strd)

\* A clip_coords that clamps the x coordinates and leaves the y coordinates alone.
clip_coords_x_only(boxes, img_shape) ==
    <<Clamp(boxes[1], 0, img_shape[2]), boxes[2],
      Clamp(boxes[3], 0, img_shape[2]), boxes[4]>>

\* clip_coords: x1, x2 into [0, width], y1, y2 into [0, height].
clip_coords(boxes, img_shape) ==
    <<Clamp(boxes[1], 0, img_shape[2]), Clamp(boxes[2], 0, img_shape[1]),
      Clamp(boxes[3], 0, img_shape[2]), Clamp(boxes[4], 0, img_shape[1])>>

\* scale_coords with ratio_pad given: gain = ratio_pad[0][0], pad = ratio_pad[1].
scale_coords(img1_shape, xyxy, shape0, ratio_pad) ==
    LET gain == ratio_pad[1][1]
        padxy == ratio_pad[2]
    IN  clip_coords(<<FracDiv(FracSub(xyxy[1], padxy[1]), gain),
                      FracDiv(FracSub(xyxy[2], padxy[2]), gain),
                      FracDiv(FracSub(xyxy[3], padxy[1]), gain),
                      FracDiv(FracSub(xyxy[4], padxy[2]), gain)>>, shape0)

\* Source and target shapes, <<height, width>>.
SourceShapes == {<<720, 1280>>, <<1280, 720>>, <<360, 640>>, <<100, 75>>}
TargetShapes == {<<640, 640>>, <<384, 640>>, <<400, 400>>}
Strides == {32, 64}

\* Boxes of a source image of shape sh: corners at the origin, the centre, the far corner.
SourceBoxes(sh) ==
    {<<x1, y1, x2, y2>> : x1 \in {0, sh[2] \div 2}, y1 \in {0, sh[1] \div 2},
                          x2 \in {sh[2] \div 2, sh[2]}, y2 \in {sh[1] \div 2, sh[1]}}

LetterInit ==
    /\ img0_shape \in SourceShapes
    /\ new_shape \in TargetShapes
    /\ auto \in BOOLEAN
    /\ scaleFill \in BOOLEAN
    /\ scaleup \in BOOLEAN
    /\ stride \in Strides
    /\ coords0 \in SourceBoxes(img0_shape)
    /\ ratio = <<>>
    /\ pad = <<>>
    /\ new_unpad = <<0, 0>>
    /\ border = [top |-> 0, bottom |-> 0, left |-> 0, right |-> 0]
    /\ img1_coords = <<>>
    /\ lpc = "letterbox"
    /\ ProfileIdle /\ NmsIdle /\ IouIdle /\ LoadIdle

\* letterbox(img0, new_shape, auto=, scaleFill=, scaleup=, stride=)
LetterboxCall ==
    /\ lpc = "letterbox"
    /\ LET res == letterbox(img0_shape, new_shape, auto, scaleFill, scaleup, stride)
       IN  /\ ratio' = res.ratio
           /\ pad' = res.pad
           /\ new_unpad' = res.new_unpad
           /\ border' = [top |-> res.top, bottom |-> res.bottom,
                         left |-> res.left, right |-> res.right]
    /\ lpc' = "forward"
    /\ UNCHANGED <<img0_shape, new_shape, auto, scaleFill, scaleup, stride, coords0, img1_coords>>
    /\ UNCHANGED <<profileVars, nmsVars, iouVars, loadVars>>

\* The box of the source image carried into the padded image with the ratio and the
\* padding letterbox returned: x * ratio[0] + dw, y * ratio[1] + dh.
ForwardMap ==
    /\ lpc = "forward"
    /\ img1_coords' = <<FracAdd(FracMul(FracOf(coords0[1]), ratio[1]), pad[1]),
                        FracAdd(FracMul(FracOf(coords0[2]), ratio[2]), pad[2]),
                        FracAdd(FracMul(FracOf(coords0[3]), ratio[1]), pad[1]),
                        FracAdd(FracMul(FracOf(coords0[4]), ratio[2]), pad[2])>>
    /\ lpc' = "scale"
    /\ UNCHANGED <<img0_shape, new_shape, auto, scaleFill, scaleup, stride, ratio, pad,
                   new_unpad, border, coords0>>
    /\ UNCHANGED <<profileVars, nmsVars, iouVars, loadVars>>

\* scale_coords(img1.shape, coords, img0.shape, (ratio, pad))
ScaleCoordsCall ==
    /\ lpc = "scale"
    /\ img1_coords' = scale_coords(<<new_unpad[2] + border.top + border.bottom,
                                     new_unpad[1] + border.left + border.right>>,
                                   img1_coords, img0_shape, <<ratio, pad>>)
    /\ lpc' = "done"
    /\ UNCHANGED <<img0_shape, new_shape, auto, scaleFill, scaleup, stride, ratio, pad,
                   new_unpad, border, coords0>>
    /\ UNCHANGED <<profileVars, nmsVars, iouVars, loadVars>>

LetterNext == LetterboxCall \/ ForwardMap \/ ScaleCoordsCall

SpecLetterbox == LetterInit /\ [][LetterNext]_vars

\* |f - n| <= 1
WithinOnePixel(f, n) ==
    /\ FracLE(FracSub(f, FracOf(n)), FracOf(1))
    /\ FracLE(FracSub(FracOf(n), f), FracOf(1))

\* C10: whatever the source shape, the target shape and the policy (auto, scaleFill,
\* scaleup), a source coordinate mapped forward with letterbox's ratio and padding and
\* back with scale_coords given that (ratio, pad) comes back within 1 pixel per axis.
C10_LetterboxInverse ==
    lpc = "done" => \A c \in 1..4 : WithinOnePixel(img1_coords[c], coords0[c])

(***************************************************************************)
(* clip_coords and scale_coords on boxes of any kind: out of the image,    *)
(* corners in either order.                                                *)
(***************************************************************************)
\* scale_coords with ratio_pad None: gain and pad computed from the two shapes.
scale_coords_default(img1_shape, xyxy, shape0) ==
    LET gain == FracMin(Frac(img1_shape[1], shape0[1]), Frac(img1_shape[2], shape0[2]))
        padx == FracDiv(FracSub(FracOf(img1_shape[2]), FracMul(FracOf(shape0[2]), gain)), FracOf(2))
        pady == FracDiv(FracSub(FracOf(img1_shape[1]), FracMul(FracOf(shape0[1]), gain)), FracOf(2))
    IN  clip_coords(<<FracDiv(FracSub(xyxy[1], padx), gain),
                      FracDiv(FracSub(xyxy[2], pady), gain),
                      FracDiv(FracSub(xyxy[3], padx), gain),
                      FracDiv(FracSub(xyxy[4], pady), gain)>>, shape0)

FracBox(b) == <<FracOf(b[1]), FracOf(b[2]), FracOf(b[3]), FracOf(b[4])>>

\* How far outside the image a coordinate of an input box may lie.
MaxOutside == 1

ClipShapes == {<<360, 640>>, <<100, 75>>}

\* Coordinates along an axis of extent n: inside, on the border, and up to MaxOutside beyond.
AxisCoords(n) == (-MaxOutside..0) \cup {n \div 2} \cup (n..(n + MaxOutside))

\* Boxes for an image of shape sh, corners in either order.
AnyBoxes(sh) ==
    {<<x1, y1, x2, y2>> : x1 \in AxisCoords(sh[2]), y1 \in AxisCoords(sh[1]),
                          x2 \in {-MaxOutside, sh[2] \div 2, sh[2] + MaxOutside},
                          y2 \in {-MaxOutside, sh[1] \div 2, sh[1] + MaxOutside}}

ClipInit ==
    /\ img0_shape \in ClipShapes
    /\ new_shape = <<384, 640>>
    /\ auto \in BOOLEAN
    /\ scaleFill = FALSE
    /\ scaleup = TRUE
    /\ stride = 32
    /\ coords0 \in AnyBoxes(img0_shape)
    /\ ratio = letterbox(img0_shape, new_shape, auto, scaleFill, scaleup, stride).ratio
    /\ pad = letterbox(img0_shape, new_shape, auto, scaleFill, scaleup, stride).pad
    /\ new_unpad = <<0, 0>>
    /\ border = [top |-> 0, bottom |-> 0, left |-> 0, right |-> 0]
    /\ img1_coords = <<>>
    /\ lpc = "clip"
    /\ ProfileIdle /\ NmsIdle /\ IouIdle /\ LoadIdle

\* clip_coords(boxes, img_shape)
ClipCoordsCall ==
    /\ lpc = "clip"
    /\ img1_coords' = clip_coords(FracBox(coords0), img0_shape)
    /\ lpc' = "clipped"
    /\ UNCHANGED <<img0_shape, new_shape, auto, scaleFill, scaleup, stride, ratio, pad,
                   new_unpad, border, coords0>>
    /\ UNCHANGED <<profileVars, nmsVars, iouVars, loadVars>>

\* scale_coords(img1_shape, coords, img0_shape, ratio_pad) on a box of the padded image
ClipScaleCall ==
    /\ lpc = "clip"
    /\ img1_coords' = scale_coords(new_shape, FracBox(coords0), img0_shape, <<ratio, pad>>)
    /\ lpc' = "scaled"
    /\ UNCHANGED <<img0_shape, new_shape, auto, scaleFill, scaleup, stride, ratio, pad,
                   new_unpad, border, coords0>>
    /\ UNCHANGED <<profileVars, nmsVars, iouVars, loadVars>>

\* scale_coords(img1_shape, coords, img0_shape)
ClipScaleDefaultCall ==
    /\ lpc = "clip"
    /\ img1_coords' = scale_coords_default(new_shape, FracBox(coords0), img0_shape)
    /\ lpc' = "scaled"
    /\ UNCHANGED <<img0_shape, new_shape, auto, scaleFill, scaleup, stride, ratio, pad,
                   new_unpad, border, coords0>>
    /\ UNCHANGED <<profileVars, nmsVars, iouVars, loadVars>>

ClipNext == ClipCoordsCall \/ ClipScaleCall \/ ClipScaleDefaultCall

SpecClip == ClipInit /\ [][ClipNext]_vars

InImage(b, sh) ==
    /\ FracLE(FracOf(0), b[1]) /\ FracLE(b[1], FracOf(sh[2]))
    /\ FracLE(FracOf(0), b[3]) /\ FracLE(b[3], FracOf(sh[2]))
    /\ FracLE(FracOf(0), b[2]) /\ FracLE(b[2], FracOf(sh[1]))
    /\ FracLE(FracOf(0), b[4]) /\ FracLE(b[4], FracOf(sh[1]))

Ordered(b) == FracLE(b[1], b[3]) /\ FracLE(b[2], b[4])

\* C11 as stated: after clip_coords (and after scale_coords, which ends with it) every
\* box has x1, x2 in [0, width], y1, y2 in [0, height], and x1 <= x2 and y1 <= y2.
C11_ClippedAndOrdered ==
    lpc \in {"clipped", "scaled"} => InImage(img1_coords, img0_shape) /\ Ordered(img1_coords)

\* C11, amended: after clip_coords (and after scale_coords) x1, x2 are in [0, width]
\* and y1, y2 in [0, height]; x1 <= x2 and y1 <= y2 hold after clipping for every box
\* that had x1 <= x2 and y1 <= y2 before.
C11_ClippedOrderKept ==
    lpc \in {"clipped", "scaled"} =>
        /\ InImage(img1_coords, img0_shape)
        /\ Ordered(FracBox(coords0)) => Ordered(img1_coords)

C11_Witness ==
    /\ lpc = "clipped"
    /\ img0_shape = <<360, 640>>
    /\ coords0 = <<-1, -1, 641, 361>>
    /\ img1_coords = FracBox(<<0, 0, 640, 360>>)

\* Boxes of any size: twice a box far larger than max_wh, a box of exactly max_wh,
\* a small box and a point, each in class 0 and in class 1.
AnySizeBoxes ==
    {<<12000, 12000, 24000, 24000>>, <<2048, 2048, 4096, 4096>>, <<5, 5, 10, 10>>, PointBox}

AnySizeRows == {Row(b, 10, c) : b \in AnySizeBoxes, c \in {<<9, 0>>, <<0, 8>>}}

AnySizeInputs ==
    {Input(<<img>>, 25, it, NoClasses, ag, FALSE, <<>>) :
        img \in SeqsUpTo(AnySizeRows, MaxRows),
        it \in {[num |-> 1, den |-> 2], [num |-> 1, den |-> 3]}, ag \in BOOLEAN}

NmsInitAnySize == \E in \in AnySizeInputs : NmsStart(in)

SpecNMSAnySize == NmsInitAnySize /\ [][NmsNext]_vars

(***************************************************************************)
(* Images with about max_det candidates: boxes 8 wide, 10 apart, side by   *)
(* side; with `near` the second box lies one pixel from the first.         *)
(***************************************************************************)
ManyRows == 302     \* the most raw rows of a crowded image

ManyCounts == (ManyRows - 3)..ManyRows

\* Class scores of row k: all 0.9, or 0.7, 0.8, 0.9 in turn; classes alternate.
ManyScore(k, mixed) == IF mixed THEN 7 + (k % 3) ELSE 9
ManyRow(k, mixed, near) ==
    Row(<<(IF near /\ k = 2 THEN 16 ELSE 10 * k + 5), 5, 8, 8>>, 10,
        IF k % 2 = 0 THEN <<ManyScore(k, mixed), 0>> ELSE <<0, ManyScore(k, mixed)>>)

ManyImage(n, mixed, near) == [k \in 1..n |-> ManyRow(k, mixed, near)]

ManyInputs ==
    {Input(<<ManyImage(n, mixed, near)>>, 25, [num |-> 1, den |-> 2], NoClasses, ag, FALSE, <<>>) :
        n \in ManyCounts, mixed \in BOOLEAN, near \in BOOLEAN, ag \in BOOLEAN}
    \cup {Input(<<(<<>>), ManyImage(ManyRows, TRUE, TRUE)>>, 25, [num |-> 1, den |-> 2],
                NoClasses, ag, FALSE, <<>>) : ag \in BOOLEAN}

NmsInitMany == \E in \in ManyInputs : NmsStart(in)

SpecNMSMany == NmsInitMany /\ [][NmsNext]_vars

(***************************************************************************)
(* non_max_suppression in merge mode: the function as it runs with the     *)
(* setting of line 439 switched to merge = True (the source ships it as    *)
(* False, so the branch of lines 496-502 is otherwise never entered).      *)
(***************************************************************************)
MergeInputs == SuppressionInputs \cup BatchInputs

NmsInitMerge == \E in \in MergeInputs : NmsStart(in)

\* One iteration that reaches line 504 with merge-NMS on.
NmsStoreMerged ==
    /\ npc = "loop"
    /\ xi <= Len(prediction)
    /\ CurrentDetections # <<>>
    /\ x_nms' = [x_nms EXCEPT ![xi] = CurrentDetections]
    /\ output' = [output EXCEPT
                      ![xi] = SuppressionStepWhen(TRUE, CurrentDetections, iou_thres, agnostic)]
    /\ \E d \in {0, TickSeconds} :
          /\ elapsed' = elapsed + d
          /\ warned' = (elapsed + d > time_limit)
          /\ npc' = AfterStore(elapsed + d)
          /\ xi' = IF AfterStore(elapsed + d) = "loop" THEN xi + 1 ELSE xi
    /\ UNCHANGED <<prediction, conf_thres, iou_thres, classes, agnostic, multi_label, labels>>
    /\ UNCHANGED <<profileVars, iouVars, letterVars, loadVars>>

NmsMergeNext == NmsSkipImage \/ NmsStoreMerged \/ NmsReturn

SpecNMSMerge == NmsInitMerge /\ [][NmsMergeNext]_vars

(***************************************************************************)
(* Properties of non_max_suppression.                                      *)
(***************************************************************************)
\* The IoU of the specification: intersection over union, 0 when the union is 0.
\* SpecIoUAtMost(a, b, t) is IoU(a, b) <= t.
SpecIoUAtMost(a, b, t) ==
    LET inter == box_inter(a, b)
        union == box_area(a) + box_area(b) - inter
    IN  union = 0 \/ inter * t.den <= t.num * union

\* Candidate i of x comes before candidate j in descending confidence.
Before(x, i, j) == x[i].conf > x[j].conf \/ (x[i].conf = x[j].conf /\ i < j)

\* K is what greedy suppression keeps of x: j is kept iff its IoU with every kept
\* candidate before it, of its class (of any class when agnostic), is at most iou_thres.
GreedyKeeps(x, K) ==
    \A j \in 1..Len(x) :
        j \in K <=> \A i \in K : (Before(x, i, j) /\ (agnostic \/ x[i].cls = x[j].cls))
                                   => SpecIoUAtMost(x[i].box, x[j].box, iou_thres)

\* The rows K of x in descending confidence.
RECURSIVE RowsOf(_, _)
RowsOf(x, K) ==
    IF K = {} THEN <<>>
    ELSE LET first == CHOOSE i \in K : \A j \in K \ {i} : Before(x, i, j)
         IN  <<x[first]>> \o RowsOf(x, K \ {first})

ScenarioFirst == [box |-> <<0, 0, 10, 10>>, conf |-> 90, cls |-> 0]
ScenarioSecond == [box |-> <<1, 1, 11, 11>>, conf |-> 80, cls |-> 0]

TwoClassesOneBox ==
    /\ npc = "returned"
    /\ Len(x_nms) = 1
    /\ Len(x_nms[1]) = 2
    /\ x_nms[1][1].box = x_nms[1][2].box
    /\ box_area(x_nms[1][1].box) > 0
    /\ x_nms[1][1].cls # x_nms[1][2].cls

BothRetained ==
    /\ Len(output[1]) = 2
    /\ {output[1][1], output[1][2]} = {x_nms[1][1], x_nms[1][2]}

OnlyHigherSurvives ==
    /\ Len(output[1]) = 1
    /\ output[1][1] \in {x_nms[1][1], x_nms[1][2]}
    /\ output[1][1].conf >= x_nms[1][1].conf
    /\ output[1][1].conf >= x_nms[1][2].conf

\* C5 as stated: two boxes with identical coordinates and different classes are both
\* retained when agnostic is off, whatever their position and size, and only the
\* higher-confidence one survives when agnostic is on.
C5_ClassIsolationAnySize ==
    TwoClassesOneBox => IF agnostic THEN OnlyHigherSurvives ELSE BothRetained

BoxWidth(b) == b[3] - b[1]
BoxHeight(b) == b[4] - b[2]

\* C5, amended: with agnostic off both are retained provided the box's width or its
\* height is at most max_wh (classes 0 and 1 are max_wh apart); with agnostic on only
\* the higher-confidence one survives (iou_thres being below 1).
C5_ClassIsolationWithinMaxWh ==
    TwoClassesOneBox =>
        /\ (~agnostic /\ (BoxWidth(x_nms[1][1].box) <= max_wh \/ BoxHeight(x_nms[1][1].box) <= max_wh))
               => BothRetained
        /\ (agnostic /\ iou_thres.num < iou_thres.den)
               => OnlyHigherSurvives

C5_Witness ==
    /\ TwoClassesOneBox
    /\ ~agnostic
    /\ x_nms[1][1].box = <<0, 0, 4096, 4096>>
    /\ BothRetained

\* C6: the suppression step applied again to the detections returned for an image,
\* with the same iou_thres and agnostic flag, returns the same detections.
C6_SuppressionIdempotent ==
    npc = "returned" =>
        \A k \in 1..Len(output) : SuppressionStep(output[k], iou_thres, agnostic) = output[k]

C6_Witness ==
    /\ npc = "returned"
    /\ Len(x_nms) = 1
    /\ Len(x_nms[1]) = 3
    /\ Len(output[1]) = 2
    /\ SuppressionStep(output[1], iou_thres, agnostic) = output[1]

\* C7: once the elapsed time is over the 10 s budget no later image of the batch is
\* processed: no step taken with elapsed > time_limit stores detections.
C7_NoImageAfterBudget ==
    [][(npc = "loop" /\ elapsed > time_limit) => output' = output]_vars

\* Detection d of an image was suppressed by a detection of out: one of its class (of
\* any class when agnostic) that is at least as confident and overlaps it above iou_thres.
SuppressedBy(d, out) ==
    \E i \in 1..Len(out) :
        /\ out[i] # d
        /\ out[i].conf >= d.conf
        /\ (agnostic \/ out[i].cls = d.cls)
        /\ ~SpecIoUAtMost(out[i].box, d.box, iou_thres)

\* C15: each image's detection set holds at most max_det = 300 boxes in descending
\* confidence order; a candidate that is missing from it was suppressed by a returned
\* box or, the set being full (300 boxes), is no more confident than any returned box.
C15_AtMostMaxDet ==
    npc = "returned" =>
        \A k \in 1..Len(output) :
            /\ Len(output[k]) <= 300
            /\ \A i \in 1..(Len(output[k]) - 1) : output[k][i].conf >= output[k][i + 1].conf
            /\ \A i \in 1..Len(output[k]) : \E j \in 1..Len(x_nms[k]) : output[k][i] = x_nms[k][j]
            /\ \A j \in 1..Len(x_nms[k]) :
                   \/ \E i \in 1..Len(output[k]) : output[k][i] = x_nms[k][j]
                   \/ SuppressedBy(x_nms[k][j], output[k])
                   \/ /\ Len(output[k]) = 300
                      /\ \A i \in 1..300 : output[k][i].conf >= x_nms[k][j].conf

\* 302 candidates, one of them suppressed, 301 survivors, 300 returned.
C15_Witness ==
    /\ npc = "returned"
    /\ agnostic
    /\ Len(x_nms) = 1
    /\ Len(x_nms[1]) = 302
    /\ \E j \in 1..2 : SuppressedBy(x_nms[1][j], output[1])
    /\ Len(output[1]) = 300
    /\ \E j \in 1..302 :
          /\ \A i \in 1..300 : output[1][i] # x_nms[1][j]
          /\ ~SuppressedBy(x_nms[1][j], output[1])

\* The rows of image k that go through the filters: its raw rows and, when labels are
\* given, one row of objectness 1.0 per a-priori label.
CandidateRows(k) ==
    prediction[k] \o LabelRows(IF labels = <<>> THEN <<>> ELSE labels[k], nc)

\* Detection d is class c of row r, taken with every filter passed.
ComesFrom(d, r, c) ==
    /\ r.obj * 10 > conf_thres
    /\ d.box = xywh2xyxy(r.xywh)
    /\ d.cls = c - 1
    /\ d.conf = r.obj * r.cls[c]
    /\ d.conf > conf_thres
    /\ classes.given => d.cls \in classes.ids

\* C16: one detection set per image; every detection returned comes from a row with
\* objectness > conf_thres, has confidence objectness x class score > conf_thres and,
\* when classes are given, a class among them; the set is empty when no row of the
\* image passes these filters.
C16_OnlyFilteredDetections ==
    npc = "returned" =>
        /\ Len(output) = Len(prediction)
        /\ \A k \in 1..Len(output) :
               /\ \A i \in 1..Len(output[k]) :
                      \E j \in 1..Len(CandidateRows(k)) : \E c \in 1..nc :
                          ComesFrom(output[k][i], CandidateRows(k)[j], c)
               /\ (\A j \in 1..Len(CandidateRows(k)) : \A c \in 1..nc :
                       \/ CandidateRows(k)[j].obj * 10 <= conf_thres
                       \/ CandidateRows(k)[j].obj * CandidateRows(k)[j].cls[c] <= conf_thres
                       \/ (classes.given /\ (c - 1) \notin classes.ids))
                   => output[k] = <<>>

\* Three raw rows: one dropped for its objectness, one for its class, one returned.
C16_Witness ==
    /\ npc = "returned"
    /\ conf_thres = 25
    /\ classes = OnlyClasses({0})
    /\ labels = <<>>
    /\ prediction = <<(<<Row(<<5, 5, 10, 10>>, 2, <<9, 0>>),
                         Row(<<6, 6, 10, 10>>, 10, <<0, 8>>),
                         Row(<<7, 7, 10, 10>>, 10, <<9, 8>>)>>)>>
    /\ ~multi_label
    /\ output = <<(<<[box |-> <<2, 2, 12, 12>>, conf |-> 90, cls |-> 0]>>)>>

\* Candidate j of x has no other candidate overlapping it above iou_thres (boxes of
\* other classes counting only when agnostic).
Lone(x, j) ==
    \A m \in 1..Len(x) :
        (m # j /\ (agnostic \/ x[m].cls = x[j].cls))
            => SpecIoUAtMost(x[m].box, x[j].box, iou_thres)

\* Merge mode acted on image k: it was stored with more than one candidate.
MergeActed(k) == Len(x_nms[k]) > 1 /\ (k < xi \/ npc = "returned")

MergedFrom(d, x, j) ==
    /\ d.cls = x[j].cls
    /\ d.conf = x[j].conf
    /\ d.box = MergedBox(x, [m \in 1..Len(x) |-> OffsetBox(x[m], agnostic)], j, iou_thres)

MaxImages == 2     \* image files
MaxVideos == 3     \* video files
MaxFrames == 2     \* frames of a video

ImageFile == [video |-> FALSE, frames |-> 1]
VideoFiles == {[video |-> TRUE, frames |-> f] : f \in 0..MaxFrames}

\* self.files = images + videos, at least one file (the assert of line 564).
FileLists ==
    {[k \in 1..ni |-> ImageFile] \o vs :
        ni \in 0..MaxImages, vs \in SeqsUpTo(VideoFiles, MaxVideos)} \ {<<>>}

\* new_video(path): a capture at the start of file k, self.frame = 0.
new_video(k) == [open |-> TRUE, file |-> k, pos |-> 0]

\* The index in files of videos[0], 0 without a video.
FirstVideo(fs) ==
    IF \E k \in 1..Len(fs) : fs[k].video
    THEN CHOOSE k \in 1..Len(fs) : fs[k].video /\ \A j \in 1..(k - 1) : ~fs[j].video
    ELSE 0

\* __init__ followed by __iter__.
LoadInit ==
    /\ files \in FileLists
    /\ nf = Len(files)
    /\ cap = IF FirstVideo(files) # 0 THEN new_video(FirstVideo(files)) ELSE NoCap
    /\ frame = 0
    /\ count = 0
    /\ yielded = <<>>
    /\ last_call = "none"
    /\ lipc = "iterating"
    /\ ProfileIdle /\ NmsIdle /\ IouIdle /\ LetterIdle

\* cap.read() succeeds while the capture has frames left.
CanRead(c) == c.open /\ c.pos < files[c.file].frames

\* __next__ at the end of the files (lines 572-573).
NextAtEnd ==
    /\ lipc = "iterating"
    /\ count = nf
    /\ last_call' = "StopIteration"
    /\ UNCHANGED <<files, nf, count, cap, frame, yielded, lipc>>
    /\ UNCHANGED <<profileVars, nmsVars, iouVars, letterVars>>

\* __next__ on an image (lines 594-611).
NextImage ==
    /\ lipc = "iterating"
    /\ count # nf
    /\ ~files[count + 1].video
    /\ count' = count + 1
    /\ yielded' = Append(yielded, <<count + 1, 0>>)
    /\ last_call' = "item"
    /\ UNCHANGED <<files, nf, cap, frame, lipc>>
    /\ UNCHANGED <<profileVars, nmsVars, iouVars, letterVars>>

\* __next__ on a video whose read succeeds (lines 577-581, 591-611).
NextFrame ==
    /\ lipc = "iterating"
    /\ count # nf
    /\ files[count + 1].video
    /\ CanRead(cap)
    /\ cap' = [cap EXCEPT !.pos = @ + 1]
    /\ frame' = frame + 1
    /\ yielded' = Append(yielded, <<count + 1, frame + 1>>)
    /\ last_call' = "item"
    /\ UNCHANGED <<files, nf, count, lipc>>
    /\ UNCHANGED <<profileVars, nmsVars, iouVars, letterVars>>

\* __next__ on a video whose read fails (lines 581-589): the file counter moves on and
\* the capture is released; after the last video StopIteration, otherwise the next
\* video is opened and read once more, and that second ret_val is not looked at: with
\* a frame the item is returned, without one img0 is None and img0.shape (line 603)
\* raises AttributeError.
NextVideoOver ==
    /\ lipc = "iterating"
    /\ count # nf
    /\ files[count + 1].video
    /\ ~CanRead(cap)
    /\ count' = count + 1
    /\ IF count + 1 = nf
       THEN /\ cap' = [cap EXCEPT !.open = FALSE]
            /\ last_call' = "StopIteration"
            /\ UNCHANGED <<frame, yielded>>
       ELSE IF CanRead(new_video(count + 2))
       THEN /\ cap' = [new_video(count + 2) EXCEPT !.pos = 1]
            /\ frame' = 1
            /\ yielded' = Append(yielded, <<count + 2, 1>>)
            /\ last_call' = "item"
       ELSE /\ cap' = new_video(count + 2)
            /\ frame' = 1
            /\ last_call' = "AttributeError"
            /\ UNCHANGED yielded
    /\ UNCHANGED <<files, nf, lipc>>
    /\ UNCHANGED <<profileVars, nmsVars, iouVars, letterVars>>

LoadNext == NextAtEnd \/ NextImage \/ NextFrame \/ NextVideoOver

SpecLoad == LoadInit /\ [][LoadNext]_vars

\* The items of file k: one for an image, one per frame of a video.
ItemsOf(k) ==
    IF files[k].video THEN [f \in 1..files[k].frames |-> <<k, f>>] ELSE <<(<<k, 0>>)>>

RECURSIVE ItemsUpTo(_)
ItemsUpTo(k) == IF k = 0 THEN <<>> ELSE ItemsUpTo(k - 1) \o ItemsOf(k)

IsPrefix(p, q) == Len(p) <= Len(q) /\ SubSeq(q, 1, Len(p)) = p

\* C20: the iteration yields one item per image and one per frame read from each video,
\* in the order of the files, and then raises StopIteration: count never exceeds nf, a
\* call ends with an item or with StopIteration and with nothing else (no call goes on
\* with a frame whose read failed), and StopIteration comes when every item is out.
C20_OneItemPerFrameThenStop ==
    lipc = "iterating" =>
        /\ count <= nf
        /\ IsPrefix(yielded, ItemsUpTo(nf))
        /\ last_call \in {"none", "item", "StopIteration"}
        /\ last_call = "StopIteration" => (count = nf /\ yielded = ItemsUpTo(nf))

(***************************************************************************)
(* Properties of letterbox (checked under SpecLetterbox).                  *)
(***************************************************************************)
\* The total padding of the two axes: pad holds the halves (dw, dh) letterbox returns.
TotalPadX == FracMul(FracOf(2), pad[1])
TotalPadY == FracMul(FracOf(2), pad[2])

\* lead and trail split the whole-pixel padding total: they add up to it, differ by at
\* most 1, and the leading side has the extra pixel of an odd total.
LeadingSplit(lead, trail, total) ==
    /\ total.den = 1
    /\ lead + trail = total.num
    /\ lead - trail \in {0, 1}

\* C18: the padding of each axis is split so that top + bottom and left + right equal
\* the total padding, the two sides differ by at most 1 pixel and, the total being odd,
\* the leading side (top, left) has the extra pixel.
C18_LeadingSideGetsExtra ==
    lpc # "letterbox" =>
        /\ LeadingSplit(border.top, border.bottom, TotalPadY)
        /\ LeadingSplit(border.left, border.right, TotalPadX)

\* C19: with auto and a target that is a multiple of stride on both axes, the height
\* and the width of the padded image (resized size plus the borders) are multiples of
\* stride, whatever the source shape.
C19_AutoPadStrideMultiple ==
    (lpc # "letterbox" /\ auto /\ new_shape[1] % stride = 0 /\ new_shape[2] % stride = 0) =>
        /\ (new_unpad[2] + border.top + border.bottom) % stride = 0
        /\ (new_unpad[1] + border.left + border.right) % stride = 0

\* Source 720x1280, target 640x640, stride 32, auto: ratio 0.5, output 384x640.
C19_Witness ==
    /\ lpc = "done"
    /\ auto
    /\ img0_shape = <<720, 1280>>
    /\ new_shape = <<640, 640>>
    /\ stride = 32
    /\ ratio = <<Frac(1, 2), Frac(1, 2)>>
    /\ new_unpad = <<640, 360>>
    /\ border = [top |-> 12, bottom |-> 12, left |-> 0, right |-> 0]

====
